---- MODULE Spec2Model ----
(***************************************************************************)
(* Model of api/index.py: the POST /chat handler, the two Supabase helpers *)
(* get_history and save_message, the context builder                       *)
(* build_context_string and the chip parsing done inline in chat.          *)
(*                                                                         *)
(* A Python str is a sequence of one-character strings, so that strip,     *)
(* split, upper, join and f-string concatenation are computed and not      *)
(* assumed.  A coroutine is cut at its awaits: one action resumes a        *)
(* request from the call it waits for, with an outcome of that call chosen *)
(* by the environment, and runs it up to the next await.                   *)
(***************************************************************************)
EXTENDS Integers, Sequences, FiniteSets, TLC

VARIABLES req, store, pure

vars == <<req, store, pure>>

(***************************************************************************)
(* Bounds of the model.                                                    *)
(***************************************************************************)
\* requests in flight together (SpecConc)
NReq == 2
\* rows the store holds when the request arrives (Spec)
MaxRows == 2
\* longest chip-agent output enumerated exhaustively
MaxLen == 7
\* longest history enumerated for build_context_string
MaxHist == 2

(***************************************************************************)
(* Program constants.                                                      *)
(***************************************************************************)
\* chips_list[:3] and while len(chips_list) < 3
MaxChips == 3
HTTP_OK == 200
HTTP_CREATED == 201
HTTP_ERROR == 500

(***************************************************************************)
(* String literals of the source.                                          *)
(***************************************************************************)
Header ==
    <<"C","O","N","V","E","R","S","A","T","I","O","N"," ","H","I","S","T","O",
      "R","Y",":">>

Suffix ==
    <<"\n","-","-","-","\n","C","R","I","T","I","C","A","L",":"," ","Y","o","u",
      " ","a","l","r","e","a","d","y"," ","h","a","v","e"," ","a","l","l"," ",
      "t","h","e"," ","i","n","f","o","r","m","a","t","i","o","n"," ","a","b",
      "o","v","e","."," ","D","O"," ","N","O","T"," ","a","s","k"," ","f","o",
      "r"," ","d","e","t","a","i","l","s"," ","y","o","u","'","v","e"," ","a",
      "l","r","e","a","d","y"," ","r","e","c","e","i","v","e","d","."," ","C",
      "o","n","t","i","n","u","e"," ","t","h","e"," ","c","o","n","v","e","r",
      "s","a","t","i","o","n"," ","n","a","t","u","r","a","l","l","y"," ","b",
      "a","s","e","d"," ","o","n"," ","w","h","a","t"," ","t","h","e"," ","u",
      "s","e","r"," ","h","a","s"," ","t","o","l","d"," ","y","o","u","."," ",
      "I","f"," ","t","h","e","y","'","r","e"," ","a","s","k","i","n","g"," ",
      "f","o","r"," ","m","o","r","e"," ","i","d","e","a","s"," ","o","r"," ",
      "d","i","f","f","e","r","e","n","t"," ","s","u","g","g","e","s","t","i",
      "o","n","s",","," ","p","r","o","v","i","d","e"," ","t","h","e","m"," ",
      "d","i","r","e","c","t","l","y"," ","w","i","t","h","o","u","t"," ","r",
      "e","-","a","s","k","i","n","g"," ","f","o","r"," ","i","n","f","o","r",
      "m","a","t","i","o","n",".","\n","-","-","-","\n">>

UserPrefix ==
    <<"U","S","E","R",":"," ">>

ErrPrefix ==
    <<"C","h","a","t"," ","e","r","r","o","r",":"," ">>

Unknown ==
    <<"u","n","k","n","o","w","n">>

NoneText ==
    <<"N","o","n","e">>

ErrNoGet ==
    <<"'","s","t","r","'"," ","o","b","j","e","c","t"," ","h","a","s"," ","n",
      "o"," ","a","t","t","r","i","b","u","t","e"," ","'","g","e","t","'">>

ErrNoUpper ==
    <<"'","N","o","n","e","T","y","p","e","'"," ","o","b","j","e","c","t"," ",
      "h","a","s"," ","n","o"," ","a","t","t","r","i","b","u","t","e"," ","'",
      "u","p","p","e","r","'">>

Sep == <<":", " ">>
NL == <<"\n">>
Pipe == "|"

(***************************************************************************)
(* Python str methods.                                                     *)
(***************************************************************************)
Whitespace == {" ", "\t", "\n", "\r"}

Lowercase ==
    <<"a","b","c","d","e","f","g","h","i","j","k","l","m",
      "n","o","p","q","r","s","t","u","v","w","x","y","z">>

Uppercase ==
    <<"A","B","C","D","E","F","G","H","I","J","K","L","M",
      "N","O","P","Q","R","S","T","U","V","W","X","Y","Z">>

SetMin(S) == CHOOSE x \in S : \A y \in S : x <= y
SetMax(S) == CHOOSE x \in S : \A y \in S : y <= x

\* str.strip(): leading and trailing whitespace removed
Strip(s) ==
    LET ns == {i \in 1..Len(s) : s[i] \notin Whitespace}
    IN  IF ns = {} THEN <<>> ELSE SubSeq(s, SetMin(ns), SetMax(ns))

\* str.split(sep) for a one-character sep: never an empty list
RECURSIVE Split(_, _)
Split(s, sep) ==
    LET ps == {i \in 1..Len(s) : s[i] = sep}
    IN  IF ps = {} THEN <<s>>
        ELSE LET i == SetMin(ps)
             IN  <<SubSeq(s, 1, i - 1)>> \o Split(SubSeq(s, i + 1, Len(s)), sep)

UpperChar(c) ==
    IF \E i \in 1..Len(Lowercase) : Lowercase[i] = c
    THEN Uppercase[CHOOSE i \in 1..Len(Lowercase) : Lowercase[i] = c]
    ELSE c

\* str.upper()
Upper(s) == [i \in 1..Len(s) |-> UpperChar(s[i])]

\* sep.join(lines)
RECURSIVE Join(_, _)
Join(sep, lines) ==
    IF lines = <<>> THEN <<>>
    ELSE IF Len(lines) = 1 THEN lines[1]
    ELSE lines[1] \o sep \o Join(sep, Tail(lines))

(***************************************************************************)
(* JSON values of the history body.  A field of a row is a string, null or *)
(* missing; an element of the body is an object (a row) or something else, *)
(* of which a string stands for all (iterating a JSON object yields its    *)
(* keys, which are strings).                                               *)
(***************************************************************************)
StrV(s) == [t |-> "str", s |-> s]
NullV == [t |-> "null", s |-> <<>>]
AbsentV == [t |-> "absent", s |-> <<>>]
Obj(role, content) == [t |-> "obj", role |-> role, content |-> content]
StrItem == [t |-> "str", role |-> AbsentV, content |-> AbsentV]

Ok(v) == [ok |-> TRUE, val |-> v]
Raise(e) == [ok |-> FALSE, val |-> e]

(***************************************************************************)
(* build_context_string                                                    *)
(***************************************************************************)
\* mutant of RoleOf: the role is not upper-cased
RoleOf_NoUpper(msg) ==
    IF msg.t # "obj" THEN Raise(ErrNoGet)
    ELSE IF msg.role.t = "absent" THEN Ok(Unknown)
    ELSE IF msg.role.t = "null" THEN Raise(ErrNoUpper)
    ELSE Ok(msg.role.s)

\* msg.get("role", "unknown").upper(): get is an attribute of dicts only,
\* upper of strings only; a key that is present with null yields None
RoleOf(msg) ==
    IF msg.t # "obj" THEN Raise(ErrNoGet)
    ELSE IF msg.role.t = "absent" THEN Ok(Upper(Unknown))
    ELSE IF msg.role.t = "null" THEN Raise(ErrNoUpper)
    ELSE Ok(Upper(msg.role.s))

\* msg.get("content", "") as formatted by the f-string
ContentOf(msg) ==
    IF msg.content.t = "absent" THEN <<>>
    ELSE IF msg.content.t = "null" THEN NoneText
    ELSE msg.content.s

\* the for loop: context_lines after the messages from i on are appended
RECURSIVE AppendLines(_, _, _)
AppendLines(messages, i, context_lines) ==
    IF i > Len(messages) THEN Ok(context_lines)
    ELSE LET role == RoleOf(messages[i])
         IN  IF ~role.ok THEN role
             ELSE AppendLines(messages, i + 1,
                      Append(context_lines,
                             role.val \o Sep \o ContentOf(messages[i])))

build_context_string(messages) ==
    IF messages = <<>> THEN Ok(<<>>)
    ELSE LET looped == AppendLines(messages, 1, <<Header>>)
         IN  IF ~looped.ok THEN looped
             ELSE Ok(Join(NL, Append(looped.val, Suffix)))

(***************************************************************************)
(* Chip parsing, inline in chat                                            *)
(***************************************************************************)
\* [chip.strip() for chip in chips_text.split("|") if chip.strip()]
RECURSIVE StripDrop(_)
StripDrop(segs) ==
    IF segs = <<>> THEN <<>>
    ELSE LET chip == Strip(Head(segs))
         IN  (IF chip # <<>> THEN <<chip>> ELSE <<>>) \o StripDrop(Tail(segs))

\* mutant of Truncate: the list is not cut to three
Truncate_Never(l) == l

\* chips_list[:3]
Truncate(l) == SubSeq(l, 1, IF Len(l) < MaxChips THEN Len(l) ELSE MaxChips)

\* mutant of Pad: the list is not padded
Pad_Never(l) == l

\* while len(chips_list) < 3: chips_list.append("")
RECURSIVE Pad(_)
Pad(l) == IF Len(l) < MaxChips THEN Pad(Append(l, <<>>)) ELSE l

\* the body of the inner try, from the chip agent's output to chips_list
ParseChips(output) ==
    LET chips_text == Strip(output)
    IN  IF chips_text # <<>>
        THEN Pad(Truncate(StripDrop(Split(chips_text, Pipe))))
        ELSE <<>>

(***************************************************************************)
(* The pure functions on their own: the input is drawn from a bounded set  *)
(* and one step applies the function.                                      *)
(***************************************************************************)
Alphabet == {"a", "b", " ", "|"}

Strings(A, n) == UNION {[1..k -> A] : k \in 0..n}

\* the examples of the documentation, longer than MaxLen
ChipExamples ==
    { <<"a"," ","|"," ","b"," ","|"," ","c">>,
      <<"a"," ","|"," ","b">>,
      <<"a","|","b","|","c","|","d">>,
      <<" ","a"," ","b"," ","|","\n","|","\t","b","|","|","a","|","b"," ">> }

ChipTexts == Strings(Alphabet, MaxLen) \cup ChipExamples

RoleValues == {StrV(<<"u","s","e","r">>), StrV(<<"b","o","t">>), AbsentV}
ContentValues == {StrV(<<"h","i">>), StrV(<<>>), AbsentV}

Items ==
    {Obj(r, c) : r \in RoleValues, c \in ContentValues}
        \cup {StrItem, Obj(NullV, StrV(<<"h","i">>)), Obj(StrV(<<"b","o","t">>), NullV)}

Histories == UNION {[1..k -> Items] : k \in 0..MaxHist}

PureIdle == [fn |-> "none", text |-> <<>>, hist |-> <<>>, done |-> FALSE,
             chips |-> <<>>, ctx |-> Ok(<<>>)]

ApplyParseChips ==
    /\ pure.fn = "chips" /\ ~pure.done
    /\ pure' = [pure EXCEPT !.done = TRUE, !.chips = ParseChips(pure.text)]
    /\ UNCHANGED <<req, store>>

ApplyBuildContext ==
    /\ pure.fn = "ctx" /\ ~pure.done
    /\ pure' = [pure EXCEPT !.done = TRUE, !.ctx = build_context_string(pure.hist)]
    /\ UNCHANGED <<req, store>>

(***************************************************************************)
(* The environment: the data store and the two hosted models.              *)
(***************************************************************************)
Reqs == 1..NReq

UserRole == <<"u","s","e","r">>
BotRole == <<"b","o","t">>

Messages == {<<"h","i">>, <<"o","k">>}
Sessions == {"s1", "s2"}

\* what Gift_agent.run may do: return an output or raise
ReplyResults == {Ok(<<"M","u","g">>), Raise(<<"b","o","o","m">>)}

\* what chips_agent.run may do
ChipResults ==
    { Ok(<<"a"," ","|"," ","b"," ","|"," ","c">>),
      Ok(<<"a","|","b">>),
      Ok(<<" ","|"," ">>),
      Ok(<<>>),
      Raise(<<"d","o","w","n">>) }

\* the rows of a session in insertion order (order=created_at.asc), as JSON
RowsOf(st, session_id) ==
    LET Mine(row) == row.session_id = session_id
        rows == SelectSeq(st, Mine)
    IN  [i \in 1..Len(rows) |-> Obj(StrV(rows[i].role), StrV(rows[i].content))]

\* what client.get may do: raise, or answer with a status and a body on
\* which json() returns a value or raises
HistoryResponses(st, session_id) ==
    { [tag |-> "rows", raised |-> FALSE, status |-> HTTP_OK,
       json |-> Ok(RowsOf(st, session_id))],
      [tag |-> "dict_body", raised |-> FALSE, status |-> HTTP_OK,
       json |-> Ok(<<StrItem>>)],
      [tag |-> "null_role", raised |-> FALSE, status |-> HTTP_OK,
       json |-> Ok(<<Obj(NullV, StrV(<<"h","i">>))>>)],
      [tag |-> "bad_json", raised |-> FALSE, status |-> HTTP_OK,
       json |-> Raise(<<>>)],
      [tag |-> "non_200", raised |-> FALSE, status |-> HTTP_ERROR,
       json |-> Ok(<<>>)],
      [tag |-> "raise", raised |-> TRUE, status |-> 0, json |-> Ok(<<>>)] }

\* what client.post may do; the store keeps the row iff it answers 201
SaveResponses ==
    { [tag |-> "created", raised |-> FALSE, status |-> HTTP_CREATED],
      [tag |-> "non_201", raised |-> FALSE, status |-> HTTP_ERROR],
      [tag |-> "raise", raised |-> TRUE, status |-> 0] }

StoreAfter(st, resp, r, session_id, role, content) ==
    IF ~resp.raised /\ resp.status = HTTP_CREATED
    THEN Append(st, [session_id |-> session_id, role |-> role,
                     content |-> content, by |-> r])
    ELSE st

(***************************************************************************)
(* get_history and save_message, given the HTTP client's response          *)
(***************************************************************************)
get_history(resp) ==
    IF resp.raised THEN <<>>
    ELSE IF resp.status = HTTP_OK
         THEN (IF resp.json.ok THEN resp.json.val ELSE <<>>)
         ELSE <<>>

save_message(resp) ==
    IF resp.raised THEN FALSE ELSE resp.status = HTTP_CREATED

(***************************************************************************)
(* POST /chat                                                              *)
(***************************************************************************)
NoResponse == [status |-> 0, reply |-> <<>>, chips |-> <<>>, detail |-> <<>>]

\* ChatResponse(reply=..., chips=...)
ChatResponse(reply, chips) ==
    [status |-> HTTP_OK, reply |-> reply, chips |-> chips, detail |-> <<>>]

\* mutant of HTTPException: a fixed detail without the exception's text
HTTPException_Generic(e) ==
    [status |-> HTTP_ERROR, reply |-> <<>>, chips |-> <<>>,
     detail |-> <<"I","n","t","e","r","n","a","l"," ","e","r","r","o","r">>]

\* HTTPException(status_code=500, detail=f"Chat error: {str(e)}")
HTTPException(e) ==
    [status |-> HTTP_ERROR, reply |-> <<>>, chips |-> <<>>,
     detail |-> ErrPrefix \o e]

\* a save not attempted yet; then its outcome and save_message's result
NotSaved == [tag |-> "", saved |-> FALSE]

\* per request: where chat waits (pc), its locals, its response, and a record
\* of the calls it issued (calls, reply_in, chips_in) and of their outcomes
IdleReq ==
    [pc |-> "idle", message |-> <<>>, session_id |-> "",
     history |-> <<>>, full_input |-> <<>>, agent_reply |-> <<>>, chips_list |-> <<>>,
     response |-> NoResponse,
     calls |-> <<>>, reply_in |-> <<>>, chips_in |-> <<>>,
     o_hist |-> "", o_reply |-> Ok(<<>>), o_chips |-> Ok(<<>>),
     o_user |-> NotSaved, o_bot |-> NotSaved]

\* the request arrives; chat runs to its first await, get_history
Receive(r, E) ==
    /\ req[r].pc = "idle"
    /\ \E message \in E.messages, session_id \in E.sessions :
         req' = [req EXCEPT ![r] =
                   [@ EXCEPT !.pc = "get_history",
                             !.message = message,
                             !.session_id = session_id,
                             !.calls = <<"get_history">>]]
    /\ UNCHANGED <<store, pure>>

\* get_history returns; the context is built and Gift_agent.run awaited
HistoryReturns(r, E) ==
    /\ req[r].pc = "get_history"
    /\ \E resp \in {x \in HistoryResponses(store, req[r].session_id) :
                        x.tag \in E.history} :
         LET history == get_history(resp)
             context == build_context_string(history)
             full_input == context.val \o UserPrefix \o req[r].message
         IN  req' = [req EXCEPT ![r] =
                       IF context.ok
                       THEN [@ EXCEPT !.pc = "reply_agent",
                                      !.o_hist = resp.tag,
                                      !.history = history,
                                      !.full_input = full_input,
                                      !.reply_in = full_input,
                                      !.calls = Append(@, "reply_agent")]
                       ELSE [@ EXCEPT !.pc = "done",
                                      !.o_hist = resp.tag,
                                      !.history = history,
                                      !.response = HTTPException(context.val),
                                      !.calls = Append(@, "response")]]
    /\ UNCHANGED <<store, pure>>

\* mutant of ReplyReturns: the chip agent is given the bare message
ReplyReturns_BareMessage(r, E) ==
    /\ req[r].pc = "reply_agent"
    /\ \E reply \in E.reply :
         req' = [req EXCEPT ![r] =
                   IF reply.ok
                   THEN [@ EXCEPT !.pc = "chips_agent",
                                  !.o_reply = reply,
                                  !.agent_reply = reply.val,
                                  !.chips_in = req[r].message,
                                  !.calls = Append(@, "chips_agent")]
                   ELSE [@ EXCEPT !.pc = "done",
                                  !.o_reply = reply,
                                  !.response = HTTPException(reply.val),
                                  !.calls = Append(@, "response")]]
    /\ UNCHANGED <<store, pure>>

\* mutant of ReplyReturns: the user message was saved before the reply
\* agent was called, so it is stored although the call raises
ReplyReturns_SavedBefore(r, E) ==
    /\ req[r].pc = "reply_agent"
    /\ \E reply \in E.reply :
         /\ req' = [req EXCEPT ![r] =
                      IF reply.ok
                      THEN [@ EXCEPT !.pc = "chips_agent",
                                     !.o_reply = reply,
                                     !.agent_reply = reply.val,
                                     !.chips_in = req[r].full_input,
                                     !.calls = Append(@, "chips_agent")]
                      ELSE [@ EXCEPT !.pc = "done",
                                     !.o_reply = reply,
                                     !.response = HTTPException(reply.val),
                                     !.calls = Append(@, "response")]]
         /\ store' = IF reply.ok THEN store
                     ELSE Append(store, [session_id |-> req[r].session_id,
                                         role |-> UserRole,
                                         content |-> req[r].message, by |-> r])
    /\ UNCHANGED pure

\* Gift_agent.run returns or raises; chips_agent.run is awaited
ReplyReturns(r, E) ==
    /\ req[r].pc = "reply_agent"
    /\ \E reply \in E.reply :
         req' = [req EXCEPT ![r] =
                   IF reply.ok
                   THEN [@ EXCEPT !.pc = "chips_agent",
                                  !.o_reply = reply,
                                  !.agent_reply = reply.val,
                                  !.chips_in = req[r].full_input,
                                  !.calls = Append(@, "chips_agent")]
                   ELSE [@ EXCEPT !.pc = "done",
                                  !.o_reply = reply,
                                  !.response = HTTPException(reply.val),
                                  !.calls = Append(@, "response")]]
    /\ UNCHANGED <<store, pure>>

\* mutant of ChipsReturn: without the inner try the chip agent's exception
\* reaches the outer handler
ChipsReturn_Propagates(r, E) ==
    /\ req[r].pc = "chips_agent"
    /\ \E chips_reply \in E.chips :
         req' = [req EXCEPT ![r] =
                   IF chips_reply.ok
                   THEN [@ EXCEPT !.pc = "save_user",
                                  !.o_chips = chips_reply,
                                  !.chips_list = ParseChips(chips_reply.val),
                                  !.calls = Append(@, "save_user")]
                   ELSE [@ EXCEPT !.pc = "done",
                                  !.o_chips = chips_reply,
                                  !.response = HTTPException(chips_reply.val),
                                  !.calls = Append(@, "response")]]
    /\ UNCHANGED <<store, pure>>

\* chips_agent.run returns or raises; the user message's save is awaited
ChipsReturn(r, E) ==
    /\ req[r].pc = "chips_agent"
    /\ \E chips_reply \in E.chips :
         req' = [req EXCEPT ![r] =
                   [@ EXCEPT !.pc = "save_user",
                             !.o_chips = chips_reply,
                             !.chips_list = IF chips_reply.ok
                                            THEN ParseChips(chips_reply.val)
                                            ELSE <<>>,
                             !.calls = Append(@, "save_user")]]
    /\ UNCHANGED <<store, pure>>

\* mutant of SaveUserReturns: the bot message is saved only if the user
\* message was
SaveUserReturns_StopsOnFailure(r, E) ==
    /\ req[r].pc = "save_user"
    /\ \E resp \in E.save :
         /\ store' = StoreAfter(store, resp, r, req[r].session_id,
                                UserRole, req[r].message)
         /\ req' = [req EXCEPT ![r] =
                      IF save_message(resp)
                      THEN [@ EXCEPT !.pc = "save_bot",
                                     !.o_user = [tag |-> resp.tag, saved |-> TRUE],
                                     !.calls = Append(@, "save_bot")]
                      ELSE [@ EXCEPT !.pc = "done",
                                     !.o_user = [tag |-> resp.tag, saved |-> FALSE],
                                     !.response = ChatResponse(req[r].agent_reply,
                                                               req[r].chips_list),
                                     !.calls = Append(@, "response")]]
    /\ UNCHANGED pure

\* save_message(session_id, "user", message) returns; the bot message's
\* save is awaited
SaveUserReturns(r, E) ==
    /\ req[r].pc = "save_user"
    /\ \E resp \in E.save :
         /\ store' = StoreAfter(store, resp, r, req[r].session_id,
                                UserRole, req[r].message)
         /\ req' = [req EXCEPT ![r] =
                      [@ EXCEPT !.pc = "save_bot",
                                !.o_user = [tag |-> resp.tag,
                                            saved |-> save_message(resp)],
                                !.calls = Append(@, "save_bot")]]
    /\ UNCHANGED pure

\* mutant of SaveBotReturns: a failed save is raised to the outer handler
SaveBotReturns_Propagates(r, E) ==
    /\ req[r].pc = "save_bot"
    /\ \E resp \in E.save :
         /\ store' = StoreAfter(store, resp, r, req[r].session_id,
                                BotRole, req[r].agent_reply)
         /\ req' = [req EXCEPT ![r] =
                      [@ EXCEPT !.pc = "done",
                                !.o_bot = [tag |-> resp.tag,
                                           saved |-> save_message(resp)],
                                !.response =
                                    IF save_message(resp)
                                    THEN ChatResponse(req[r].agent_reply,
                                                      req[r].chips_list)
                                    ELSE HTTPException(<<"s","a","v","e">>),
                                !.calls = Append(@, "response")]]
    /\ UNCHANGED pure

\* save_message(session_id, "bot", agent_reply) returns; chat returns
SaveBotReturns(r, E) ==
    /\ req[r].pc = "save_bot"
    /\ \E resp \in E.save :
         /\ store' = StoreAfter(store, resp, r, req[r].session_id,
                                BotRole, req[r].agent_reply)
         /\ req' = [req EXCEPT ![r] =
                      [@ EXCEPT !.pc = "done",
                                !.o_bot = [tag |-> resp.tag,
                                           saved |-> save_message(resp)],
                                !.response = ChatResponse(req[r].agent_reply,
                                                          req[r].chips_list),
                                !.calls = Append(@, "response")]]
    /\ UNCHANGED pure

(***************************************************************************)
(* Specifications.  Requests share no state in the process, only the       *)
(* store.  Spec follows one request through every outcome of its calls,    *)
(* the store holding rows that earlier requests left.  SpecConc runs NReq  *)
(* requests interleaved at their awaits against fewer outcomes per call.   *)
(***************************************************************************)
AllOutcomes ==
    [messages |-> Messages, sessions |-> Sessions,
     history |-> {"rows", "dict_body", "null_role", "bad_json", "non_200",
                  "raise"},
     reply |-> ReplyResults, chips |-> ChipResults, save |-> SaveResponses]

FewOutcomes ==
    [messages |-> Messages, sessions |-> Sessions,
     history |-> {"rows"},
     reply |-> ReplyResults,
     chips |-> {Ok(<<"a","|","b">>)},
     save |-> {resp \in SaveResponses : ~resp.raised}]

Step(r, E) ==
    \/ Receive(r, E)
    \/ HistoryReturns(r, E)
    \/ ReplyReturns(r, E)
    \/ ChipsReturn(r, E)
    \/ SaveUserReturns(r, E)
    \/ SaveBotReturns(r, E)

\* rows that earlier requests (by 0) saved
EarlierRows ==
    { [session_id |-> "s1", role |-> UserRole, content |-> <<"h","i">>, by |-> 0],
      [session_id |-> "s1", role |-> BotRole, content |-> <<"M","u","g">>, by |-> 0],
      [session_id |-> "s2", role |-> UserRole, content |-> <<"o","k">>, by |-> 0] }

Init ==
    /\ req = [r \in Reqs |-> IdleReq]
    /\ store \in UNION {[1..k -> EarlierRows] : k \in 0..MaxRows}
    /\ pure = PureIdle

Next == Step(1, AllOutcomes)

Spec == Init /\ [][Next]_vars

InitConc ==
    /\ req = [r \in Reqs |-> IdleReq]
    /\ store = <<>>
    /\ pure = PureIdle

NextConc == \E r \in Reqs : Step(r, FewOutcomes)

SpecConc == InitConc /\ [][NextConc]_vars

InitChips ==
    /\ req = [r \in Reqs |-> IdleReq]
    /\ store = <<>>
    /\ pure \in {[PureIdle EXCEPT !.fn = "chips", !.text = t] : t \in ChipTexts}

SpecChips == InitChips /\ [][ApplyParseChips]_vars

InitContext ==
    /\ req = [r \in Reqs |-> IdleReq]
    /\ store = <<>>
    /\ pure \in {[PureIdle EXCEPT !.fn = "ctx", !.hist = h] : h \in Histories}

SpecContext == InitContext /\ [][ApplyBuildContext]_vars

(***************************************************************************)
(* Properties                                                              *)
(***************************************************************************)
Issued(r, call) == \E i \in 1..Len(req[r].calls) : req[r].calls[i] = call

\* the reply agent was called and returned an output
ReplySucceeded(r) == Issued(r, "chips_agent")

\* the reply agent was called and raised
ReplyRaised(r) == Issued(r, "reply_agent") /\ ~req[r].o_reply.ok

\* the chip agent was called and raised
ChipsRaised(r) == Issued(r, "chips_agent") /\ ~req[r].o_chips.ok

Contains(s, sub) ==
    \E i \in 0..(Len(s) - Len(sub)) : SubSeq(s, i + 1, i + Len(sub)) = sub

RowsBy(r, role) == {i \in 1..Len(store) : store[i].by = r /\ store[i].role = role}

\* C1: a request whose reply-agent call succeeded answers 200 with the reply
\* agent's output as reply and the chip list computed from the chip agent's
\* outcome, whatever the history fetch and the two saves did.
C1_PersistenceNeverAffectsResponse ==
    \A r \in Reqs :
        (req[r].pc = "done" /\ ReplySucceeded(r)) =>
            /\ req[r].response.status = HTTP_OK
            /\ req[r].response.reply = req[r].o_reply.val
            /\ req[r].response.chips =
                   (IF req[r].o_chips.ok THEN ParseChips(req[r].o_chips.val)
                                         ELSE <<>>)
            /\ req[r].response.detail = <<>>

\* the history fetch failed and both saves failed, in different ways
C1_Witness ==
    \E r \in Reqs :
        /\ req[r].pc = "done"
        /\ req[r].o_hist = "non_200"
        /\ req[r].o_user.tag = "raise"
        /\ req[r].o_bot.tag = "non_201"
        /\ req[r].response.status = HTTP_OK
        /\ Len(req[r].response.chips) = MaxChips

\* C2: when the reply-agent call raises, the request ends at once with a 500
\* whose detail contains the exception's text, and no ChatResponse.
C2_ReplyFailureIs500 ==
    \A r \in Reqs :
        ReplyRaised(r) =>
            /\ req[r].pc = "done"
            /\ req[r].response.status = HTTP_ERROR
            /\ req[r].o_reply.val # <<>>
            /\ Contains(req[r].response.detail, req[r].o_reply.val)
            /\ req[r].response.reply = <<>>
            /\ req[r].response.chips = <<>>

C2_Witness ==
    \E r \in Reqs :
        /\ ReplyRaised(r)
        /\ req[r].history # <<>>
        /\ req[r].response.status = HTTP_ERROR

\* C3 as claimed: every 200 response carries exactly three chips.
C3_AlwaysThreeChips ==
    \A r \in Reqs :
        (req[r].pc = "done" /\ req[r].response.status = HTTP_OK) =>
            Len(req[r].response.chips) = MaxChips

\* C3 as amended: a 200 response carries exactly three chips when the chip
\* agent returned an output with a character that is not whitespace, and no
\* chip at all when the output was empty or blank or the call raised.
C3_ThreeChipsOrNone ==
    \A r \in Reqs :
        (req[r].pc = "done" /\ req[r].response.status = HTTP_OK) =>
            Len(req[r].response.chips) =
                (IF /\ req[r].o_chips.ok
                    /\ \E i \in 1..Len(req[r].o_chips.val) :
                          req[r].o_chips.val[i] \notin Whitespace
                 THEN MaxChips ELSE 0)

\* a 200 response whose chips were padded from two segments to three
C3_Witness ==
    \E r \in Reqs :
        /\ req[r].pc = "done"
        /\ req[r].response.status = HTTP_OK
        /\ req[r].o_chips = Ok(<<"a","|","b">>)
        /\ req[r].response.chips = << <<"a">>, <<"b">>, <<>> >>

\* C4: a chip agent that raises is not propagated: the chip list is empty,
\* both saves are still issued, and the request answers 200 with the reply.
C4_ChipFailureDegrades ==
    \A r \in Reqs :
        ChipsRaised(r) =>
            /\ req[r].chips_list = <<>>
            /\ req[r].pc \in {"save_user", "save_bot", "done"}
            /\ req[r].pc = "done" =>
                  /\ Issued(r, "save_user") /\ Issued(r, "save_bot")
                  /\ req[r].o_user.tag # "" /\ req[r].o_bot.tag # ""
                  /\ req[r].response =
                         ChatResponse(req[r].o_reply.val, <<>>)

C4_Witness ==
    \E r \in Reqs :
        /\ ChipsRaised(r)
        /\ req[r].pc = "done"
        /\ RowsBy(r, UserRole) # {}
        /\ RowsBy(r, BotRole) # {}

\* C6 as claimed: the response is a 500 if and only if the reply-agent call
\* raised.
C6_OnlyReplyAgentFails ==
    \A r \in Reqs :
        req[r].pc = "done" =>
            (req[r].response.status = HTTP_ERROR <=> ReplyRaised(r))

(***************************************************************************)
(* Chip parsing stated on the positions of the text: a segment lies        *)
(* between two neighbouring separators (or an end of the text), and what   *)
(* is kept of it runs from its first to its last non-whitespace character. *)
(***************************************************************************)
Ink(t, lo, hi) == {i \in (lo + 1)..(hi - 1) : t[i] \notin Whitespace}

SegmentEnd(t, lo) ==
    SetMin({i \in (lo + 1)..Len(t) : t[i] = Pipe} \cup {Len(t) + 1})

\* the separators (0 for the start of the text) that open a kept segment
KeptStarts(t) ==
    {lo \in {0} \cup {i \in 1..Len(t) : t[i] = Pipe} :
        Ink(t, lo, SegmentEnd(t, lo)) # {}}

ExpectedChip(t, k) ==
    LET kept == KeptStarts(t)
    IN  IF k > Cardinality(kept) THEN <<>>
        ELSE LET lo == CHOOSE x \in kept :
                           Cardinality({y \in kept : y < x}) = k - 1
                 ink == Ink(t, lo, SegmentEnd(t, lo))
             IN  SubSeq(t, SetMin(ink), SetMax(ink))

\* C5: the chip list of an output text is its first three non-blank
\* segments, trimmed and in order, padded at the end with empty strings to
\* length three; it is the empty list when the text is empty or blank; the
\* four documented examples give the documented lists.
C5_ChipParsing ==
    (pure.fn = "chips" /\ pure.done) =>
        LET t == pure.text
            chips == pure.chips
            blank == \A i \in 1..Len(t) : t[i] \in Whitespace
        IN  /\ Len(chips) = (IF blank THEN 0 ELSE MaxChips)
            /\ \A k \in 1..Len(chips) : chips[k] = ExpectedChip(t, k)
            /\ t = <<"a"," ","|"," ","b"," ","|"," ","c">>
                   => chips = << <<"a">>, <<"b">>, <<"c">> >>
            /\ t = <<"a"," ","|"," ","b">>
                   => chips = << <<"a">>, <<"b">>, <<>> >>
            /\ t = <<"a","|","b","|","c","|","d">>
                   => chips = << <<"a">>, <<"b">>, <<"c">> >>
            /\ t = <<>> => chips = <<>>
            /\ t = <<"|"," ","|">> => chips = << <<>>, <<>>, <<>> >>

\* five non-blank segments among blank ones, with inner and outer whitespace
C5_Witness ==
    /\ pure.fn = "chips" /\ pure.done
    /\ pure.text = <<" ","a"," ","b"," ","|","\n","|","\t","b","|","|","a","|","b"," ">>
    /\ pure.chips = << <<"a"," ","b">>, <<"b">>, <<"a">> >>

(***************************************************************************)
(* The transcript read back: the rendered context split at line breaks.    *)
(***************************************************************************)
\* a row as the store returns it: an object whose role, when present, is a
\* string and whose content is not null
IsRow(msg) ==
    /\ msg.t = "obj"
    /\ msg.role.t \in {"str", "absent"}
    /\ msg.content.t \in {"str", "absent"}

RoleText(msg) == IF msg.role.t = "absent" THEN Unknown ELSE msg.role.s
ContentText(msg) == IF msg.content.t = "absent" THEN <<>> ELSE msg.content.s

NoLower(s) == \A i \in 1..Len(s) : \A j \in 1..Len(Lowercase) : s[i] # Lowercase[j]

\* C8: build_context_string gives the empty string for the empty history;
\* for a non-empty history of rows it gives the header line, then one line
\* ROLE: content per message in the history's order with the role in upper
\* case, then the fixed suffix.
C8_ContextTranscript ==
    (pure.fn = "ctx" /\ pure.done) =>
        LET h == pure.hist
            out == pure.ctx
        IN  /\ h = <<>> => out = Ok(<<>>)
            /\ (h # <<>> /\ \A i \in 1..Len(h) : IsRow(h[i])) =>
                  /\ out.ok
                  /\ LET text == out.val
                         lines == Split(text, "\n")
                         tail == Split(Suffix, "\n")
                     IN  /\ Len(lines) = 1 + Len(h) + Len(tail)
                         /\ lines[1] = Header
                         /\ \A i \in 1..Len(h) :
                               LET line == lines[1 + i]
                                   n == Len(RoleText(h[i]))
                               IN  /\ Len(line) = n + 2 + Len(ContentText(h[i]))
                                   /\ SubSeq(line, 1, n) = Upper(RoleText(h[i]))
                                   /\ NoLower(SubSeq(line, 1, n))
                                   /\ SubSeq(line, n + 1, n + 2) = Sep
                                   /\ SubSeq(line, n + 3, Len(line)) = ContentText(h[i])
                         /\ SubSeq(text, Len(text) - Len(Suffix) + 1, Len(text)) = Suffix
                         /\ \A i \in 1..Len(tail) : lines[1 + Len(h) + i] = tail[i]

\* a bot message after a user message, rendered in that order
C8_Witness ==
    /\ pure.fn = "ctx" /\ pure.done
    /\ Len(pure.hist) = 2
    /\ pure.hist[1] = Obj(StrV(UserRole), StrV(<<"h","i">>))
    /\ pure.hist[2] = Obj(StrV(BotRole), AbsentV)
    /\ pure.ctx.ok
    /\ Contains(pure.ctx.val, <<"\n">> \o <<"U","S","E","R",":"," ","h","i">>
                                  \o <<"\n">> \o <<"B","O","T",":"," ">> \o <<"\n">>)

(***************************************************************************)
(* Properties of interleaved requests                                      *)
(***************************************************************************)
CallOrder ==
    <<"get_history", "reply_agent", "chips_agent", "save_user", "save_bot">>

IsPrefix(a, b) == Len(a) <= Len(b) /\ SubSeq(b, 1, Len(a)) = a

\* C7: a request issues its calls in the order history fetch, reply agent,
\* chip agent, save of the user message, save of the bot message, each at
\* most once, and responds last; both agents are given the same input, the
\* context of the fetched history followed by USER: and the message; the
\* user message is saved only after the reply agent has returned and before
\* the bot message, however the requests interleave.
C7_CallOrder ==
    \A r \in Reqs :
        LET calls == req[r].calls
            n == Len(calls)
            responded == n > 0 /\ calls[n] = "response"
            issued == IF responded THEN SubSeq(calls, 1, n - 1) ELSE calls
        IN  /\ IsPrefix(issued, CallOrder)
            /\ responded <=> req[r].pc = "done"
            /\ (~responded /\ n > 0) => req[r].pc = calls[n]
            /\ Issued(r, "reply_agent") =>
                  /\ build_context_string(req[r].history).ok
                  /\ req[r].reply_in =
                         build_context_string(req[r].history).val
                             \o UserPrefix \o req[r].message
            /\ Issued(r, "chips_agent") => req[r].chips_in = req[r].reply_in
            /\ Issued(r, "save_user") =>
                  /\ req[r].o_reply.ok
                  /\ req[r].agent_reply = req[r].o_reply.val
            /\ \A i \in RowsBy(r, UserRole) : \A j \in RowsBy(r, BotRole) : i < j
            /\ RowsBy(r, UserRole) # {} => Issued(r, "save_bot")
            /\ RowsBy(r, BotRole) # {} => responded

\* two requests of one session, the second having read the first's user row,
\* with their four rows interleaved in the store
C7_Witness ==
    /\ req[1].pc = "done" /\ req[2].pc = "done"
    /\ Len(store) = 4
    /\ store[1].by = 1 /\ store[2].by = 2 /\ store[3].by = 2 /\ store[4].by = 1
    /\ Len(req[2].history) = 1
    /\ req[2].chips_in # req[1].chips_in

\* C9: the two saves are independent: the bot message's save is issued
\* whatever the user message's save did, a request stores at most one row of
\* each role, a stored user row holds the request's message and a stored bot
\* row the reply the client is given.
C9_IndependentSaves ==
    \A r \in Reqs :
        /\ req[r].o_user.tag # "" => Issued(r, "save_bot")
        /\ req[r].pc = "done" /\ req[r].response.status = HTTP_OK
               => req[r].o_user.tag # "" /\ req[r].o_bot.tag # ""
        /\ Cardinality(RowsBy(r, UserRole)) <= 1
        /\ Cardinality(RowsBy(r, BotRole)) <= 1
        /\ RowsBy(r, UserRole) # {} <=> req[r].o_user.saved
        /\ RowsBy(r, BotRole) # {} <=> req[r].o_bot.saved
        /\ \A i \in 1..Len(store) :
              store[i].by = r =>
                  /\ store[i].session_id = req[r].session_id
                  /\ store[i].role = UserRole => store[i].content = req[r].message
                  /\ store[i].role = BotRole =>
                        /\ store[i].content = req[r].agent_reply
                        /\ req[r].pc = "done"
                        /\ store[i].content = req[r].response.reply

\* one answered request left only its bot row, the other only its user row
C9_Witness ==
    /\ req[1].pc = "done" /\ req[1].response.status = HTTP_OK
    /\ req[2].pc = "done" /\ req[2].response.status = HTTP_OK
    /\ RowsBy(1, UserRole) = {} /\ RowsBy(1, BotRole) # {}
    /\ RowsBy(2, UserRole) # {} /\ RowsBy(2, BotRole) = {}

\* C10: a request whose reply-agent call raised has called neither the chip
\* agent nor save_message, and no row of the store is its own.
C10_FailedRequestSavesNothing ==
    \A r \in Reqs :
        ReplyRaised(r) =>
            /\ req[r].calls = <<"get_history", "reply_agent", "response">>
            /\ req[r].o_user = NotSaved /\ req[r].o_bot = NotSaved
            /\ \A i \in 1..Len(store) : store[i].by # r

\* the failed request had read the session's rows, saved by the other
\* request, and they are still all the store holds
C10_Witness ==
    /\ ReplyRaised(2)
    /\ Len(req[2].history) = 2
    /\ Len(store) = 2
    /\ \A i \in 1..Len(store) : store[i].by = 1

====
